---- MODULE Spec2Model ----
(***************************************************************************)
(* A model of the `punish` package (upymake/enforce-pep8):                 *)
(*   - punish/style.py: the metaclasses NoMixedCaseMeta, NoLowerCaseMeta,  *)
(*     MatchSignatureMeta, NoDuplicateMeta, their composite PepStyleMeta,  *)
(*     the abstractstyle marker and SingletonMeta;                         *)
(*   - punish/type.py: the Typed descriptors, OrderTypedMeta, the          *)
(*     enforce_type decorator and the typed_property factory.              *)
(*                                                                         *)
(* Strings are modelled as sequences of character classes: "a" stands for  *)
(* a lower-case letter, "A" for an upper-case letter and "_" for the       *)
(* underscore (an uncased character).                                      *)
(***************************************************************************)
EXTENDS Integers, Sequences, FiniteSets, TLC

VARIABLES
    \* ---- SingletonMeta (style.py:272-308) ----
    instance,   \* cls.__instance: None or the id of the cached object
    heap,       \* the objects built so far; heap[i] is the state of object i
    ctorRuns,   \* how many times super().__call__ (the constructor) was entered
    log,        \* history of the completed sequential calls
    pc,         \* per thread: the position inside SingletonMeta.__call__
    targs,      \* per thread: the arguments of the call in flight
    tmp,        \* per thread: the value of super().__call__(...) not yet stored
    ret,        \* per thread: what the last completed call returned
    calls,      \* number of calls started by the threads
    \* ---- one class statement under a metaclass of style.py ----
    meta,       \* the metaclass of the class being declared
    clsName,    \* class_name
    parent,     \* the base class: an index of `types`, 0 when there is none
    stmts,      \* the binding statements of the class body executed so far
    ns,         \* the namespace the body fills, an ordered list of bindings
    dpc,        \* "off", "body" (the body is running) or "done"
    outcome,    \* what the class statement raised, if anything
    newType,    \* index in `types` of the object this statement created, or 0
    types,      \* every type object created so far
    subclasses, \* subclasses[i]: the type objects registered as subclasses of i
    usable,     \* the type objects bound to their name (statement completed)
    instResult, \* instResult[i]: outcome of the last instantiation of type i
    \* ---- a class with Typed members and one instance of it (type.py) ----
    smeta,      \* the metaclass the class is declared under
    sbody,      \* the class body as written
    sdict,      \* the class dictionary OrderTypedMeta.__new__ built
    sorder,     \* the class attribute _order
    spc,        \* "off", "declare" (class statement pending), "declared" (the
                \* class exists) or "live" (the class and an instance exist)
    idict,      \* the instance's __dict__
    ops,        \* the reads and writes made so far, with what they yielded
    \* ---- an instance of the same class written with typed_property ----
    pdict,      \* the instance's __dict__
    pops,       \* the same reads and writes made on it, with what they yielded
    \* ---- a function decorated with enforce_type (type.py:120-165) ----
    wdebug,     \* __debug__: False when the interpreter runs with -O
    wpc,        \* "off", "def" (function defined, decorator pending) or "decorated"
    wtypes,     \* bound_types: the expected type of each covered parameter
    wcallable,  \* what the function's name is bound to: "func" or "wrapper"
    wcall       \* the last call of that name: arguments and what happened

singletonVars == <<instance, heap, ctorRuns, log, pc, targs, tmp, ret, calls>>
declVars == <<meta, clsName, parent, stmts, ns, dpc, outcome, newType, types,
              subclasses, usable, instResult>>

slotVars == <<smeta, sbody, sdict, sorder, spc, idict, ops, pdict, pops>>

wrapVars == <<wdebug, wpc, wtypes, wcallable, wcall>>

vars == <<singletonVars, declVars, slotVars, wrapVars>>

\* Python values: the None object, a reference to the object heap[i], and the
\* outcome of a call that propagated an exception instead of returning.
None == [kind |-> "None"]
Ref(i) == [kind |-> "object", id |-> i]
Raised == [kind |-> "raised"]

(***************************************************************************)
(* Bounds                                                                  *)
(***************************************************************************)
NumArgs == 2        \* distinct constructor argument sets
MaxCalls == 4       \* construction calls in one behaviour
NumThreads == 2     \* threads racing on the singleton type

Args == 1..NumArgs
Threads == 1..NumThreads

(***************************************************************************)
(* Strings and the str / re operations the metaclasses apply to names      *)
(***************************************************************************)
IsLowerChar(c) == c = "a"
IsUpperChar(c) == c = "A"
IsCasedChar(c) == IsLowerChar(c) \/ IsUpperChar(c)

\* str.islower(): at least one cased character and no upper-case one
\* (style.py:134)
str_islower(s) ==
    /\ \E i \in DOMAIN s : IsCasedChar(s[i])
    /\ \A i \in DOMAIN s : ~IsUpperChar(s[i])

\* str.isupper(): at least one cased character and no lower-case one
\* (style.py:114)
str_isupper(s) ==
    /\ \E i \in DOMAIN s : IsCasedChar(s[i])
    /\ \A i \in DOMAIN s : ~IsLowerChar(s[i])

\* name.startswith("_")  (style.py:160, 214)
startswith_underscore(s) == Len(s) >= 1 /\ s[1] = "_"

\* re.compile("([a-z]+[A-Z]+).*").match(attr_name): re.match anchors the
\* pattern at the first character; the group takes the characters 1..i as
\* [a-z]+ and i+1..j as [A-Z]+, and .* takes whatever follows.
\* (style.py:99, 113)
camelcase_match(s) ==
    \E i \in 1..Len(s), j \in 1..Len(s) :
        /\ i < j
        /\ \A k \in 1..i : IsLowerChar(s[k])
        /\ \A k \in (i + 1)..j : IsUpperChar(s[k])

(***************************************************************************)
(* Values bound in a class body                                            *)
(***************************************************************************)
\* a non-callable object, truthy or falsy
Data(truthy) == [kind |-> "data", truthy |-> truthy]
\* a function with its inspect.Signature, marked by @abstractstyle or not
Func(sig, abstract) == [kind |-> "function", sig |-> sig, abstract |-> abstract]

\* callable(value)  (style.py:114, 160)
callable(v) == v.kind = "function"

\* the truth value Python's `if previous_defined:` tests  (style.py:163)
Truthy(v) ==
    CASE v.kind = "function" -> TRUE
      [] v.kind = "data" -> v.truthy
      [] OTHER -> FALSE

\* style.py:16-41  abstractstyle(f) is abc.abstractmethod(f): it sets
\* f.__isabstractmethod__
abstractstyle(f) == [f EXCEPT !.abstract = TRUE]

IsAbstract(v) == v.kind = "function" /\ v.abstract

\* A parameter of a signature and a signature (inspect.Parameter, Signature):
\* name, kind ("positional" or "variadic"), default, annotation.
Param(name, kind, default, annotation) ==
    [name |-> name, kind |-> kind, default |-> default, annotation |-> annotation]
Signature(params, returns) == [params |-> params, returns |-> returns]

signature_ne_namesOnly(previous, current) ==
       [i \in DOMAIN previous.params |-> <<previous.params[i].name, previous.params[i].kind,
                                           previous.params[i].default>>]
       # [i \in DOMAIN current.params |-> <<current.params[i].name, current.params[i].kind,
                                           current.params[i].default>>]

\* Signature.__ne__: two signatures are equal when their parameters (name,
\* kind, default and annotation of each, in order) and their return
\* annotations are equal.  (style.py:166)
signature_ne(previous, current) == previous # current

(***************************************************************************)
(* Namespaces                                                              *)
(***************************************************************************)
Keys(nsp) == {nsp[i].name : i \in DOMAIN nsp}
IndexOf(nsp, name) == CHOOSE i \in DOMAIN nsp : nsp[i].name = name
Binding(name, value) == [name |-> name, value |-> value]

\* dict.__setitem__: a bound name keeps its place and takes the new value
dict_setitem(nsp, name, value) ==
    [raised |-> FALSE,
     ns |-> IF name \in Keys(nsp)
            THEN [nsp EXCEPT ![IndexOf(nsp, name)] = Binding(name, value)]
            ELSE Append(nsp, Binding(name, value))]

NoDuplicateDict_setitem_equalAllowed(nsp, name, value) ==
    IF name \in Keys(nsp) /\ nsp[IndexOf(nsp, name)].value # value
    THEN [raised |-> TRUE, ns |-> nsp]
    ELSE dict_setitem(nsp, name, value)

\* style.py:177-189  NoDuplicateDict.__setitem__
NoDuplicateDict_setitem(nsp, name, value) ==
    IF name \in Keys(nsp)
    THEN [raised |-> TRUE, ns |-> nsp]
    ELSE [raised |-> FALSE, ns |-> Append(nsp, Binding(name, value))]

(***************************************************************************)
(* The metaclasses                                                         *)
(***************************************************************************)
BasesMixedCaseFirst(m) ==
    IF m = "PepStyleMeta"
    THEN <<"ABCMeta", "NoMixedCaseMeta", "NoLowerCaseMeta", "MatchSignatureMeta",
           "NoDuplicateMeta">>
    ELSE <<>>

\* The metaclasses a metaclass derives from, as listed in its class statement
\* (style.py:93, 120, 139, 192 derive from type alone; style.py:233-235).
Bases(m) ==
    IF m = "PepStyleMeta"
    THEN <<"ABCMeta", "NoLowerCaseMeta", "NoMixedCaseMeta", "MatchSignatureMeta",
           "NoDuplicateMeta">>
    ELSE <<>>

\* The method resolution order: every listed base derives from type alone, so
\* the linearisation is the class, its bases in the listed order, then type.
MRO(m) == <<m>> \o Bases(m) \o <<"type">>

InMRO(m, c) == \E k \in DOMAIN MRO(m) : MRO(m)[k] = c

\* style.py:217-230  the first __prepare__ along the MRO: NoDuplicateMeta's
\* returns a NoDuplicateDict, type's a plain dict.
Prepare(m) == IF InMRO(m, "NoDuplicateMeta") THEN "NoDuplicateDict" ELSE "dict"

\* One binding statement of the class body, run on the prepared namespace.
Namespace_setitem(m, nsp, name, value) ==
    IF Prepare(m) = "NoDuplicateDict"
    THEN NoDuplicateDict_setitem(nsp, name, value)
    ELSE dict_setitem(nsp, name, value)

\* Results of a metaclass method: an error (or "none") with the member it
\* names, and the type object if one has been created.
NoCls == [name |-> <<>>, meta |-> "", parent |-> 0, dict |-> <<>>,
          order |-> [has |-> FALSE, names |-> <<>>], abstracts |-> {}]
Fail(error, member) == [error |-> error, member |-> member, created |-> FALSE, cls |-> NoCls]
Created(cls) == [error |-> "none", member |-> <<>>, created |-> TRUE, cls |-> cls]

\* type.__new__(mcs, class_name, bases, namespace): the type object
type_new(m, name, par, nsp, order) ==
    Created([name |-> name, meta |-> m, parent |-> par, dict |-> nsp,
             order |-> order, abstracts |-> {}])

\* style.py:113-115  the test applied to one member
BadAttribute(b) ==
    camelcase_match(b.name) \/ (str_isupper(b.name) /\ callable(b.value))

\* style.py:134
NoLowerCaseMeta_rejects_firstOnly(name) == IsLowerChar(name[1])

NoLowerCaseMeta_rejects(name) == IsLowerChar(name[1]) \/ str_islower(name)

\* getattr(t, name, None) on a type object: the class dictionaries along the
\* chain of base classes, None when no class binds the name
RECURSIVE getattr_type(_, _, _)
getattr_type(tys, t, name) ==
    IF t = 0 THEN None
    ELSE IF name \in Keys(tys[t].dict)
         THEN tys[t].dict[IndexOf(tys[t].dict, name)].value
         ELSE getattr_type(tys, tys[t].parent, name)

ABCMeta_abstracts_ownOnly(tys, cls) ==
    {cls.dict[i].name : i \in {j \in DOMAIN cls.dict : IsAbstract(cls.dict[j].value)}}

\* abc.ABCMeta.__new__ (style.py:233-234): the abstract names of a new class
\* are the members of its namespace marked abstract, and the abstract names
\* of its base that getattr(cls, name) still finds marked abstract.
ABCMeta_abstracts(tys, cls) ==
    {cls.dict[i].name : i \in {j \in DOMAIN cls.dict : IsAbstract(cls.dict[j].value)}}
    \cup
    {n \in (IF cls.parent = 0 THEN {} ELSE tys[cls.parent].abstracts) :
        IsAbstract(IF n \in Keys(cls.dict)
                   THEN cls.dict[IndexOf(cls.dict, n)].value
                   ELSE getattr_type(tys, cls.parent, n))}

\* The first index of a sequence satisfying a test, 0 when there is none:
\* how a `for` loop over namespace.items() meets its first offender.
FirstBadAttribute(nsp) ==
    IF \E i \in DOMAIN nsp : BadAttribute(nsp[i])
    THEN CHOOSE i \in DOMAIN nsp :
            BadAttribute(nsp[i]) /\ \A j \in 1..(i - 1) : ~BadAttribute(nsp[j])
    ELSE 0

\* meta_new(tys, m, k, name, par, nsp): the __new__ of the k-th class of the
\* MRO of metaclass m, as reached by the super().__new__ calls
RECURSIVE meta_new(_, _, _, _, _, _)

NoMixedCaseMeta_new_checkAfter(tys, m, k, name, par, nsp) ==
    LET r == meta_new(tys, m, k + 1, name, par, nsp)
    IN  IF r.error = "none" /\ FirstBadAttribute(nsp) # 0
        THEN [r EXCEPT !.error = "BadAttributeNameError",
                       !.member = nsp[FirstBadAttribute(nsp)].name]
        ELSE r

\* style.py:101-117  NoMixedCaseMeta.__new__
NoMixedCaseMeta_new(tys, m, k, name, par, nsp) ==
    IF FirstBadAttribute(nsp) # 0
    THEN Fail("BadAttributeNameError", nsp[FirstBadAttribute(nsp)].name)
    ELSE meta_new(tys, m, k + 1, name, par, nsp)

\* style.py:123-136  NoLowerCaseMeta.__new__
NoLowerCaseMeta_new(tys, m, k, name, par, nsp) ==
    IF NoLowerCaseMeta_rejects(name)
    THEN Fail("BadClassNameError", <<>>)
    ELSE meta_new(tys, m, k + 1, name, par, nsp)

\* style.py:214  [name for name in namespace if not name.startswith("_")]
PublicNames(nsp) ==
    LET public(b) == ~startswith_underscore(b.name)
        kept == SelectSeq(nsp, public)
    IN  [i \in DOMAIN kept |-> kept[i].name]

\* style.py:195-215  NoDuplicateMeta.__new__: it calls type.__new__ itself
NoDuplicateMeta_new(tys, m, k, name, par, nsp) ==
    type_new(m, name, par, nsp, [has |-> TRUE, names |-> PublicNames(nsp)])

\* abc.ABCMeta.__new__ (style.py:233-234): it creates the class through
\* super().__new__ and then records the abstract names on it
ABCMeta_new(tys, m, k, name, par, nsp) ==
    LET r == meta_new(tys, m, k + 1, name, par, nsp)
    IN  IF r.created
        THEN [r EXCEPT !.cls.abstracts = ABCMeta_abstracts(tys, r.cls)]
        ELSE r

meta_new(tys, m, k, name, par, nsp) ==
    LET c == MRO(m)[k]
    IN  CASE c = "NoLowerCaseMeta" -> NoLowerCaseMeta_new(tys, m, k, name, par, nsp)
          [] c = "NoMixedCaseMeta" -> NoMixedCaseMeta_new(tys, m, k, name, par, nsp)
          [] c = "NoDuplicateMeta" -> NoDuplicateMeta_new(tys, m, k, name, par, nsp)
          [] c = "ABCMeta" -> ABCMeta_new(tys, m, k, name, par, nsp)
          [] c = "type" -> type_new(m, name, par, nsp, [has |-> FALSE, names |-> <<>>])
          [] OTHER -> meta_new(tys, m, k + 1, name, par, nsp)

\* style.py:159-167  the loop of MatchSignatureMeta.__init__ from the i-th
\* member on; `par` is what super(cls, cls) looks names up in
RECURSIVE match_signatures(_, _, _, _)
match_signatures(tys, par, nsp, i) ==
    IF i > Len(nsp) THEN [error |-> "none", member |-> <<>>]
    ELSE
      LET name == nsp[i].name
          value == nsp[i].value
          previous_defined == getattr_type(tys, par, name)
      IN  IF startswith_underscore(name) \/ ~callable(value)
          THEN match_signatures(tys, par, nsp, i + 1)
          ELSE IF ~Truthy(previous_defined)
          THEN match_signatures(tys, par, nsp, i + 1)
          ELSE IF ~callable(previous_defined)
          \* inspect.signature(previous_defined) raises TypeError
          THEN [error |-> "TypeError", member |-> name]
          ELSE IF signature_ne(previous_defined.sig, value.sig)
          THEN [error |-> "SignatureError", member |-> name]
          ELSE match_signatures(tys, par, nsp, i + 1)

\* style.py:146-167  MatchSignatureMeta.__init__
MatchSignatureMeta_init(tys, par, nsp) == match_signatures(tys, par, nsp, 1)

\* The __init__ a metaclass call runs on the type object __new__ returned:
\* the first one along the MRO, MatchSignatureMeta's or type's.
meta_init(tys, m, par, nsp) ==
    IF InMRO(m, "MatchSignatureMeta")
    THEN MatchSignatureMeta_init(tys, par, nsp)
    ELSE [error |-> "none", member |-> <<>>]

\* type.__new__ registers the new type object with its base class
Register(subs, par, id) ==
    [i \in 1..id |-> IF i = id THEN {}
                     ELSE IF i = par THEN subs[i] \cup {id} ELSE subs[i]]

\* The metaclass call that ends a class statement, m(class_name, bases,
\* namespace): type.__call__ runs __new__ and, on the object it returns,
\* __init__.
TypeCall(tys, subs, m, name, par, nsp) ==
    LET r == meta_new(tys, m, 1, name, par, nsp)
        id == Len(tys) + 1
        e == IF r.error = "none"
             THEN meta_init(tys, m, par, nsp)
             ELSE [error |-> r.error, member |-> r.member]
    IN  [types |-> IF r.created THEN Append(tys, r.cls) ELSE tys,
         subclasses |-> IF r.created THEN Register(subs, par, id) ELSE subs,
         newType |-> IF r.created THEN id ELSE 0,
         error |-> e.error,
         member |-> e.member]

\* A class body run to its end on the prepared namespace
RECURSIVE RunBody(_, _, _)
RunBody(m, nsp, body) ==
    IF body = <<>> THEN [raised |-> FALSE, ns |-> nsp]
    ELSE LET r == Namespace_setitem(m, nsp, Head(body).name, Head(body).value)
         IN  IF r.raised THEN r ELSE RunBody(m, r.ns, Tail(body))

(***************************************************************************)
(* Typed descriptors and OrderTypedMeta (type.py)                          *)
(***************************************************************************)
MaxOps == 3     \* reads and writes of the slots of one instance

\* Typed._name before any name is given: Typed.__init__(name=None)
NoName == <<>>

\* type.py:13-60  a Typed descriptor: Typed (expects NoneType), Integer,
\* Float or String, with the name it stores under
Typed(expected) == [kind |-> "Typed", expected |-> expected, name |-> NoName]
Integer == Typed("int")
Float == Typed("float")
String == Typed("str")

\* Python values written to the slots
PyValue(type, val) == [kind |-> "value", type |-> type, val |-> val]
PyValues == {PyValue("int", "10"), PyValue("int", "20"), PyValue("bool", "True"),
             PyValue("str", "10"), PyValue("NoneType", "None")}

\* isinstance(value, expected_type): bool is a subclass of int
isinstance(v, expected) ==
    v.type = expected \/ (v.type = "bool" /\ expected = "int")

\* isinstance(value, Typed)  (type.py:96)
IsTyped(v) == v.kind = "Typed"

OrderTypedMeta_new_unnamed(nsp) ==
    [dict |-> nsp,
     order |-> LET slots == SelectSeq(nsp, LAMBDA b : IsTyped(b.value))
               IN  [i \in DOMAIN slots |-> slots[i].name]]

\* type.py:72-100  OrderTypedMeta.__new__: every Typed member is told its
\* name and its name is appended to _order
OrderTypedMeta_new(nsp) ==
    [dict |-> [i \in DOMAIN nsp |->
                 IF IsTyped(nsp[i].value)
                 THEN Binding(nsp[i].name, [nsp[i].value EXCEPT !.name = nsp[i].name])
                 ELSE nsp[i]],
     order |-> LET slots == SelectSeq(nsp, LAMBDA b : IsTyped(b.value))
               IN  [i \in DOMAIN slots |-> slots[i].name]]

Typed_set_storeFirst(slot, d, value) ==
    [raised |-> ~isinstance(value, slot.expected),
     dict |-> dict_setitem(d, slot.name, value).ns]

\* type.py:24-33  Typed.__set__(self, instance, value) on instance.__dict__
Typed_set(slot, d, value) ==
    IF ~isinstance(value, slot.expected)
    THEN [raised |-> TRUE, dict |-> d]
    ELSE [raised |-> FALSE, dict |-> dict_setitem(d, slot.name, value).ns]

\* instance.attr for a class attribute that defines __set__ but no __get__
\* (type.py:13-33): the entry of instance.__dict__ under the attribute's
\* name, and the descriptor itself when there is none
instance_getattr(cdict, d, attr) ==
    IF attr \in Keys(d)
    THEN d[IndexOf(d, attr)].value
    ELSE cdict[IndexOf(cdict, attr)].value

\* name / shares / price, as in `Stock` (type.py:81-89, tests/test_type.py:19-27)
SlotName1 == <<"a">>
SlotName2 == <<"a", "a">>
SlotName3 == <<"a", "_", "a">>
SlotBodies ==
    {<<Binding(SlotName1, String), Binding(SlotName2, Integer)>>,
     <<Binding(SlotName2, Integer), Binding(SlotName3, Data(TRUE)),
       Binding(SlotName1, Typed("NoneType"))>>,
     <<Binding(SlotName3, Data(TRUE)), Binding(SlotName1, Integer)>>,
     <<Binding(SlotName1, String), Binding(SlotName2, Integer),
       Binding(<<"_", "a">>, Func(Signature(<<>>, "empty"), FALSE)),
       Binding(SlotName3, Float)>>}

\* The class statement of a class with Typed members under OrderTypedMeta:
\* the body fills the OrderedDict of __prepare__ (type.py:102-117) and the
\* metaclass is called on it.
DeclareTyped(body) ==
    /\ spc = "declare"
    /\ smeta' = "OrderTypedMeta"
    /\ sbody' = body
    /\ LET r == OrderTypedMeta_new(RunBody("OrderTypedMeta", <<>>, body).ns)
       IN  sdict' = r.dict /\ sorder' = r.order
    /\ spc' = "live"
    /\ UNCHANGED <<idict, ops, pdict, pops>>
    /\ UNCHANGED <<singletonVars, declVars, wrapVars>>

\* The class statement of a class with Typed members under a metaclass of
\* style.py that records _order (NoDuplicateMeta, or PepStyleMeta as with a
\* class derived from AbstractStyle): the body fills the NoDuplicateDict and
\* the metaclass is called on it (style.py:195-230).
DeclareStyled(m, body) ==
    /\ spc = "declare"
    /\ InMRO(m, "NoDuplicateMeta")
    /\ smeta' = m
    /\ sbody' = body
    /\ LET b == RunBody(m, <<>>, body)
           r == TypeCall(<<>>, <<>>, m, <<"A">>, 0, b.ns)
       IN  /\ ~b.raised /\ r.error = "none"
           /\ sdict' = r.types[r.newType].dict
           /\ sorder' = r.types[r.newType].order.names
    /\ spc' = "declared"
    /\ UNCHANGED <<idict, ops, pdict, pops>>
    /\ UNCHANGED <<singletonVars, declVars, wrapVars>>

SlotAttrs == {sdict[i].name : i \in {j \in DOMAIN sdict : IsTyped(sdict[j].value)}}

\* instance.attr = value
SlotWrite(attr, value) ==
    /\ spc = "live"
    /\ Len(ops) < MaxOps
    /\ attr \in SlotAttrs
    /\ LET r == Typed_set(sdict[IndexOf(sdict, attr)].value, idict, value)
       IN  /\ idict' = r.dict
           /\ ops' = Append(ops, [op |-> "write", attr |-> attr, value |-> value,
                                  result |-> IF r.raised THEN "TypeError" ELSE "ok"])
    /\ UNCHANGED <<smeta, sbody, sdict, sorder, spc, pdict, pops>>
    /\ UNCHANGED <<singletonVars, declVars, wrapVars>>

\* instance.attr
SlotRead(attr) ==
    /\ spc = "live"
    /\ Len(ops) < MaxOps
    /\ attr \in SlotAttrs
    /\ ops' = Append(ops, [op |-> "read", attr |-> attr,
                           value |-> instance_getattr(sdict, idict, attr),
                           result |-> "ok"])
    /\ UNCHANGED <<smeta, sbody, sdict, sorder, spc, idict, pdict, pops>>
    /\ UNCHANGED <<singletonVars, declVars, wrapVars>>

\* type.py:168-216  typed_property(name, expected_type): a property whose
\* getter and setter work on the attribute named f"_{name}"
typed_property(name, expected_type) ==
    [kind |-> "property", name |-> name, expected |-> expected_type,
     to_private_name |-> <<"_">> \o name]

\* The class body with every Typed member written as a typed_property of the
\* same name and expected type (tests/test_type.py:81-82), run as the body of
\* a class without a metaclass.
PropertyBody(body) ==
    [i \in DOMAIN body |->
        IF IsTyped(body[i].value)
        THEN Binding(body[i].name, typed_property(body[i].name, body[i].value.expected))
        ELSE body[i]]
PropertyClass(body) == RunBody("type", <<>>, PropertyBody(body)).ns

\* type.py:199  getattr(self, to_private_name): the entry of the instance's
\* __dict__, else the attribute of the class, else AttributeError
prop_fget(cdict, d, prop) ==
    IF prop.to_private_name \in Keys(d)
    THEN [result |-> "ok", value |-> d[IndexOf(d, prop.to_private_name)].value]
    ELSE IF prop.to_private_name \in Keys(cdict)
    THEN [result |-> "ok", value |-> cdict[IndexOf(cdict, prop.to_private_name)].value]
    ELSE [result |-> "AttributeError", value |-> None]

\* type.py:212-214  the setter: setattr(self, to_private_name, value) after
\* the isinstance test
prop_fset(cdict, d, prop, value) ==
    IF ~isinstance(value, prop.expected)
    THEN [raised |-> TRUE, dict |-> d]
    ELSE [raised |-> FALSE, dict |-> dict_setitem(d, prop.to_private_name, value).ns]

\* The same write made on the instance with Typed members and on the instance
\* with typed properties: slot_instance.attr = value; prop_instance.attr = value
TwinWrite(attr, value) ==
    /\ spc = "live"
    /\ Len(ops) < MaxOps
    /\ attr \in SlotAttrs
    /\ LET r == Typed_set(sdict[IndexOf(sdict, attr)].value, idict, value)
           pcls == PropertyClass(sbody)
           q == prop_fset(pcls, pdict, pcls[IndexOf(pcls, attr)].value, value)
       IN  /\ idict' = r.dict
           /\ ops' = Append(ops, [op |-> "write", attr |-> attr, value |-> value,
                                  result |-> IF r.raised THEN "TypeError" ELSE "ok"])
           /\ pdict' = q.dict
           /\ pops' = Append(pops, [op |-> "write", attr |-> attr, value |-> value,
                                    result |-> IF q.raised THEN "TypeError" ELSE "ok"])
    /\ UNCHANGED <<smeta, sbody, sdict, sorder, spc>>
    /\ UNCHANGED <<singletonVars, declVars, wrapVars>>

\* The same read made on both instances: slot_instance.attr; prop_instance.attr
TwinRead(attr) ==
    /\ spc = "live"
    /\ Len(ops) < MaxOps
    /\ attr \in SlotAttrs
    /\ LET pcls == PropertyClass(sbody)
           q == prop_fget(pcls, pdict, pcls[IndexOf(pcls, attr)].value)
       IN  /\ ops' = Append(ops, [op |-> "read", attr |-> attr,
                                  value |-> instance_getattr(sdict, idict, attr),
                                  result |-> "ok"])
           /\ pops' = Append(pops, [op |-> "read", attr |-> attr, value |-> q.value,
                                    result |-> q.result])
    /\ UNCHANGED <<smeta, sbody, sdict, sorder, spc, idict, pdict>>
    /\ UNCHANGED <<singletonVars, declVars, wrapVars>>

InitSlotOff ==
    /\ smeta = "type" /\ sbody = <<>> /\ sdict = <<>> /\ sorder = <<>> /\ spc = "off"
    /\ idict = <<>> /\ ops = <<>> /\ pdict = <<>> /\ pops = <<>>


(***************************************************************************)
(* enforce_type (type.py:120-165)                                          *)
(***************************************************************************)
\* def spam(foo, bar, tez=42)  (tests/test_type.py:48-50): the parameters by
\* position, and the default of each (NoArg: the parameter has none)
NoArg == [kind |-> "missing"]
SpamParams == <<"foo", "bar", "tez">>
SpamDefaults == <<NoArg, NoArg, PyValue("int", "42")>>

\* A call's arguments after binding: the value given for each parameter, by
\* position or by keyword, NoArg for a parameter the call leaves out.
CallArgs == [DOMAIN SpamParams -> PyValues \cup {NoArg}]

\* What enforce_type was given: for each parameter the expected type, by
\* position or by keyword, Uncovered for a parameter it says nothing about
\* (type.py:149-151, bind_partial(*type_args, **type_kwargs).arguments).
Uncovered == "uncovered"
Coverings == [DOMAIN SpamParams -> {"bool", "int", Uncovered}]

\* Signature.bind(*args, **kwargs): raises TypeError when a parameter without
\* a default is left out; .arguments holds the parameters the call gave a
\* value, in the order of the signature (defaults are not applied).
signature_bind(args) ==
    [ok |-> \A i \in DOMAIN SpamParams : args[i] = NoArg => SpamDefaults[i] # NoArg,
     arguments |-> {i \in DOMAIN SpamParams : args[i] # NoArg}]

\* the body of spam: return locals()
spam(args) ==
    [kind |-> "locals",
     values |-> [i \in DOMAIN SpamParams |->
                    IF args[i] = NoArg THEN SpamDefaults[i] ELSE args[i]]]

NoResult == [kind |-> "none"]
CallRaised(args, member) ==
    [args |-> args, raised |-> "TypeError", member |-> member, entered |-> 0,
     received |-> NoResult, result |-> NoResult]

\* a call of the undecorated function
func_call(args) ==
    IF ~signature_bind(args).ok
    THEN CallRaised(args, "")
    ELSE [args |-> args, raised |-> "none", member |-> "", entered |-> 1,
          received |-> args, result |-> spam(args)]

\* type.py:155-160  the first bound argument, in signature order, that is
\* covered and is not an instance of its expected type; 0 when there is none
FirstMismatch(bound_types, args) ==
    LET bad == {i \in signature_bind(args).arguments :
                    /\ bound_types[i] # Uncovered
                    /\ ~isinstance(args[i], bound_types[i])}
    IN  IF bad = {} THEN 0 ELSE CHOOSE i \in bad : \A j \in bad : i <= j

wrapper_unchecked(bound_types, args) == func_call(args)

\* type.py:153-161  wrapper(*args, **kwargs)
wrapper(bound_types, args) ==
    IF ~signature_bind(args).ok
    THEN CallRaised(args, "")
    ELSE IF FirstMismatch(bound_types, args) # 0
    THEN CallRaised(args, SpamParams[FirstMismatch(bound_types, args)])
    ELSE func_call(args)

\* type.py:143-163  decorator(func): the function itself when __debug__ is
\* false, the wrapper otherwise
decorator(debug) == IF ~debug THEN "func" ELSE "wrapper"

\* @enforce_type(...) applied to the definition of spam
Decorate(bound_types) ==
    /\ wpc = "def"
    /\ wtypes' = bound_types
    /\ wcallable' = decorator(wdebug)
    /\ wpc' = "decorated"
    /\ UNCHANGED <<wdebug, wcall>>
    /\ UNCHANGED <<singletonVars, declVars, slotVars>>

\* spam(...) called through the name the decorator result is bound to
WrapCall(args) ==
    /\ wpc = "decorated"
    /\ wcall' = IF wcallable = "wrapper" THEN wrapper(wtypes, args) ELSE func_call(args)
    /\ UNCHANGED <<wdebug, wpc, wtypes, wcallable>>
    /\ UNCHANGED <<singletonVars, declVars, slotVars>>

NoCall == [args |-> [i \in DOMAIN SpamParams |-> NoArg], raised |-> "none",
           member |-> "", entered |-> 0, received |-> NoResult, result |-> NoResult]

InitWrapOff ==
    /\ wdebug = TRUE /\ wpc = "off"
    /\ wtypes = [i \in DOMAIN SpamParams |-> Uncovered]
    /\ wcallable = "func" /\ wcall = NoCall

(***************************************************************************)
(* SingletonMeta                                                           *)
(***************************************************************************)

\* style.py:286  cls.__instance = None
SingletonMeta_init == None

InstanceIsNoneAlways(inst) == TRUE

\* style.py:305  if cls.__instance is None
InstanceIsNone(inst) == inst = None

\* style.py:306  super().__call__(*args, **kwargs): type.__call__ builds a new
\* object whose state is what the constructor made of the arguments.
NewObject(h, a) == Append(h, a)

SingletonMeta_call_storeBeforeConstruct(a, ok) ==
    /\ Len(log) < MaxCalls
    /\ IF InstanceIsNone(instance)
       THEN /\ ctorRuns' = ctorRuns + 1
            /\ heap' = NewObject(heap, a)
            /\ instance' = Ref(Len(heap'))
            /\ log' = Append(log, [args |-> a,
                                   result |-> IF ok THEN instance' ELSE Raised,
                                   ctor |-> TRUE])
       ELSE /\ UNCHANGED <<heap, instance, ctorRuns>>
            /\ log' = Append(log, [args |-> a, result |-> instance, ctor |-> FALSE])
    /\ UNCHANGED <<pc, targs, tmp, ret, calls>>
    /\ UNCHANGED <<declVars, slotVars, wrapVars>>

\* One whole construction call, run without interruption (style.py:289-308).
\* `ok` is whether the type's own constructor returns normally for `a`.
SingletonMeta_call(a, ok) ==
    /\ Len(log) < MaxCalls
    /\ IF InstanceIsNone(instance)
       THEN /\ ctorRuns' = ctorRuns + 1
            /\ IF ok
               THEN /\ heap' = NewObject(heap, a)
                    /\ instance' = Ref(Len(heap'))
                    /\ log' = Append(log, [args |-> a, result |-> instance', ctor |-> TRUE])
               ELSE /\ UNCHANGED <<heap, instance>>
                    /\ log' = Append(log, [args |-> a, result |-> Raised, ctor |-> TRUE])
       ELSE /\ UNCHANGED <<heap, instance, ctorRuns>>
            /\ log' = Append(log, [args |-> a, result |-> instance, ctor |-> FALSE])
    /\ UNCHANGED <<pc, targs, tmp, ret, calls>>
    /\ UNCHANGED <<declVars, slotVars, wrapVars>>

\* ---- the same handler, one interruptible step at a time ----

\* A thread enters SingletonMeta.__call__ (style.py:289).
ThreadCall(t, a) ==
    /\ pc[t] = "idle"
    /\ calls < MaxCalls
    /\ calls' = calls + 1
    /\ pc' = [pc EXCEPT ![t] = "test"]
    /\ targs' = [targs EXCEPT ![t] = a]
    /\ UNCHANGED <<instance, heap, ctorRuns, log, tmp, ret>>
    /\ UNCHANGED <<declVars, slotVars, wrapVars>>

\* style.py:305  the test of the entry
ThreadTest(t) ==
    /\ pc[t] = "test"
    /\ pc' = [pc EXCEPT ![t] = IF InstanceIsNone(instance) THEN "construct" ELSE "cached"]
    /\ UNCHANGED <<instance, heap, ctorRuns, log, targs, tmp, ret, calls>>
    /\ UNCHANGED <<declVars, slotVars, wrapVars>>

\* style.py:306, right-hand side: super().__call__(*args, **kwargs)
ThreadConstruct(t, ok) ==
    /\ pc[t] = "construct"
    /\ ctorRuns' = ctorRuns + 1
    /\ IF ok
       THEN /\ heap' = NewObject(heap, targs[t])
            /\ tmp' = [tmp EXCEPT ![t] = Ref(Len(heap'))]
            /\ pc' = [pc EXCEPT ![t] = "store"]
            /\ UNCHANGED ret
       ELSE /\ pc' = [pc EXCEPT ![t] = "idle"]
            /\ ret' = [ret EXCEPT ![t] = Raised]
            /\ UNCHANGED <<heap, tmp>>
    /\ UNCHANGED <<instance, log, targs, calls>>
    /\ UNCHANGED <<declVars, slotVars, wrapVars>>

\* style.py:306, the assignment  cls.__instance = ...
ThreadStore(t) ==
    /\ pc[t] = "store"
    /\ instance' = tmp[t]
    /\ pc' = [pc EXCEPT ![t] = "cached"]
    /\ UNCHANGED <<heap, ctorRuns, log, targs, tmp, ret, calls>>
    /\ UNCHANGED <<declVars, slotVars, wrapVars>>

\* style.py:307 and 308  return cls.__instance
ThreadReturn(t) ==
    /\ pc[t] = "cached"
    /\ ret' = [ret EXCEPT ![t] = instance]
    /\ pc' = [pc EXCEPT ![t] = "idle"]
    /\ UNCHANGED <<instance, heap, ctorRuns, log, targs, tmp, calls>>
    /\ UNCHANGED <<declVars, slotVars, wrapVars>>

InitSingletonVars ==
    /\ instance = SingletonMeta_init
    /\ heap = <<>>
    /\ ctorRuns = 0
    /\ log = <<>>
    /\ pc = [t \in Threads |-> "idle"]
    /\ targs = [t \in Threads |-> None]
    /\ tmp = [t \in Threads |-> None]
    /\ ret = [t \in Threads |-> None]
    /\ calls = 0

(***************************************************************************)
(* Inputs of the class statements                                          *)
(***************************************************************************)
MaxBody == 2    \* binding statements in the declared class body

Metas == {"NoMixedCaseMeta", "NoLowerCaseMeta", "MatchSignatureMeta",
          "NoDuplicateMeta", "PepStyleMeta"}

P(name) == Param(name, "positional", "empty", "empty")
\* def check(self, name)
SigBase == Signature(<<P("self"), P("name")>>, "empty")
\* def check(self, name, extra=False)
SigExtra == Signature(<<P("self"), P("name"),
                        Param("extra", "positional", "False", "empty")>>, "empty")
\* def check(self, value)
SigRenamed == Signature(<<P("self"), P("value")>>, "empty")
\* def check(self, name=False)
SigDefault == Signature(<<P("self"), Param("name", "positional", "False", "empty")>>, "empty")
\* def check(self, *name)
SigVariadic == Signature(<<P("self"), Param("name", "variadic", "empty", "empty")>>, "empty")
\* def check(self, name: int)
SigAnnotated == Signature(<<P("self"), Param("name", "positional", "empty", "int")>>, "empty")
\* def check(self, name) -> int
SigReturns == Signature(<<P("self"), P("name")>>, "int")

\* check / good_name, badName, _badName, my_badName, GOODNAME, _check
NameSnake == <<"a">>
NameCamel == <<"a", "A">>
NamePrivateCamel == <<"_", "a", "A">>
NameSnakeCamel == <<"a", "_", "a", "A">>
NameUpper == <<"A", "A">>
NamePrivate == <<"_", "a">>

DeclMemberNames == {NameSnake, NameCamel, NamePrivateCamel, NameSnakeCamel, NameUpper}
DeclValues == {Data(TRUE), Func(SigBase, FALSE), Func(SigExtra, FALSE),
               abstractstyle(Func(SigBase, FALSE))}
\* Base, NoLowerCase, lowercase, _lower, lowerCase
DeclTypeNames == {<<"A">>, <<"A", "a">>, <<"a">>, <<"_", "a">>, <<"a", "A">>}

Root(m, body) == [meta |-> m, has |-> TRUE, body |-> body]
NoRoot(m) == [meta |-> m, has |-> FALSE, body |-> <<>>]

\* The base classes a declared class derives from: none, or a class `Base`
\* declared before it under the same metaclass.
DeclRoots ==
    {NoRoot(m) : m \in Metas}
    \cup {Root("PepStyleMeta", <<Binding(NameSnake, v)>>) :
            v \in {Func(SigBase, FALSE), abstractstyle(Func(SigBase, FALSE))}}
    \cup {Root("MatchSignatureMeta", <<Binding(NameSnake, Func(SigBase, FALSE))>>)}

SigMemberNames == {NameSnake, NamePrivate}
SigValues == {Data(TRUE)} \cup
             {Func(s, FALSE) : s \in {SigBase, SigExtra, SigRenamed, SigDefault,
                                      SigVariadic, SigAnnotated, SigReturns}}
SigTypeNames == {<<"A">>}
SigRoots ==
    {Root(m, <<Binding(NameSnake, v)>>) :
        m \in {"MatchSignatureMeta", "PepStyleMeta"},
        v \in {Func(SigBase, FALSE), Func(SigDefault, FALSE), Data(TRUE), Data(FALSE)}}

(***************************************************************************)
(* The class statement, step by step                                       *)
(***************************************************************************)
NoOutcome == [error |-> "none", member |-> <<>>]

\* One binding statement of the class body: namespace[name] = value
Bind(name, value) ==
    /\ dpc = "body"
    /\ Len(stmts) < MaxBody
    /\ stmts' = Append(stmts, Binding(name, value))
    /\ LET r == Namespace_setitem(meta, ns, name, value)
       IN  /\ ns' = r.ns
           /\ IF r.raised
              THEN /\ outcome' = [error |-> "DuplicateAttributeError", member |-> name]
                   /\ dpc' = "done"
              ELSE UNCHANGED <<outcome, dpc>>
    /\ UNCHANGED <<meta, clsName, parent, newType, types, subclasses, usable, instResult>>
    /\ UNCHANGED <<singletonVars, slotVars, wrapVars>>

\* The end of the class body: the metaclass is called, and the name of the
\* class is bound to the type object if the call returns.
MetaCall ==
    /\ dpc = "body"
    /\ LET r == TypeCall(types, subclasses, meta, clsName, parent, ns)
       IN  /\ types' = r.types
           /\ subclasses' = r.subclasses
           /\ newType' = r.newType
           /\ outcome' = [error |-> r.error, member |-> r.member]
           /\ usable' = IF r.error = "none" THEN usable \cup {r.newType} ELSE usable
           /\ instResult' = [i \in DOMAIN r.types |->
                                IF i \in DOMAIN instResult THEN instResult[i] ELSE "none"]
    /\ dpc' = "done"
    /\ UNCHANGED <<meta, clsName, parent, stmts, ns>>
    /\ UNCHANGED <<singletonVars, slotVars, wrapVars>>

\* t(): object.__new__ refuses a class whose set of abstract names is not
\* empty (style.py:19 "cannot be instantiated unless all of its abstract
\* methods are overridden").
Instantiate(t) ==
    /\ dpc = "done"
    /\ t \in usable
    /\ instResult[t] = "none"
    /\ instResult' = [instResult EXCEPT ![t] =
                        IF types[t].abstracts # {} THEN "TypeError" ELSE "ok"]
    /\ UNCHANGED <<meta, clsName, parent, stmts, ns, dpc, outcome, newType, types,
                   subclasses, usable>>
    /\ UNCHANGED <<singletonVars, slotVars, wrapVars>>

\* No class statement is running.
InitDeclOff ==
    /\ meta = "type" /\ clsName = <<>> /\ parent = 0 /\ stmts = <<>> /\ ns = <<>>
    /\ dpc = "off" /\ outcome = NoOutcome /\ newType = 0 /\ types = <<>>
    /\ subclasses = <<>> /\ usable = {} /\ instResult = <<>>

\* The base class of a root, declared by the same class statement machinery
DeclareRoot(root) ==
    LET b == RunBody(root.meta, <<>>, root.body)
    IN  TypeCall(<<>>, <<>>, root.meta, <<"A">>, 0, b.ns)

\* A class statement starts: its metaclass is its base's, the base (if any)
\* has been declared and accepted, and the namespace is prepared empty.
InitDeclWith(roots, typeNames) ==
    \E root \in roots, tn \in typeNames :
        LET built == DeclareRoot(root)
        IN  /\ meta = root.meta
            /\ clsName = tn
            /\ stmts = <<>> /\ ns = <<>> /\ dpc = "body"
            /\ outcome = NoOutcome /\ newType = 0
            /\ IF root.has
               THEN /\ RunBody(root.meta, <<>>, root.body).raised = FALSE
                    /\ built.error = "none"
                    /\ types = built.types
                    /\ subclasses = built.subclasses
                    /\ parent = built.newType
                    /\ usable = {built.newType}
                    /\ instResult = <<"none">>
               ELSE /\ types = <<>> /\ subclasses = <<>> /\ parent = 0
                    /\ usable = {} /\ instResult = <<>>

InitDecl == InitSingletonVars /\ InitSlotOff /\ InitWrapOff /\ InitDeclWith(DeclRoots, DeclTypeNames)

NextDecl ==
    \/ \E n \in DeclMemberNames, v \in DeclValues : Bind(n, v)
    \/ MetaCall
    \/ \E t \in DOMAIN types : Instantiate(t)

SpecDecl == InitDecl /\ [][NextDecl]_vars

InitSig == InitSingletonVars /\ InitSlotOff /\ InitWrapOff /\ InitDeclWith(SigRoots, SigTypeNames)

NextSig ==
    \/ \E n \in SigMemberNames, v \in SigValues : Bind(n, v)
    \/ MetaCall
    \/ \E t \in DOMAIN types : Instantiate(t)

SpecSig == InitSig /\ [][NextSig]_vars

\* ---- class statements deriving one from another below AbstractStyle ----
MaxDepth == 3   \* levels of classes derived below AbstractStyle

\* style.py:254-269  class AbstractStyle(metaclass=PepStyleMeta): pass
ChainRoots == {Root("PepStyleMeta", <<>>)}
ChainMemberNames == {NameSnake, NameCamel}
ChainValues == {Func(SigBase, FALSE), Func(SigExtra, FALSE)}
\* Stylish, lower
ChainTypeNames == {<<"A">>, <<"a">>}

\* how many classes lie between a type object and the root of its chain
RECURSIVE Depth(_, _)
Depth(tys, t) == IF tys[t].parent = 0 THEN 0 ELSE 1 + Depth(tys, tys[t].parent)

MetaclassOf_rootOnly(tys, par) == IF tys[par].parent = 0 THEN tys[par].meta ELSE "type"

\* The metaclass of a class statement that names a base and no metaclass:
\* type(base), as for the classes derived from AbstractStyle (style.py:257-265)
MetaclassOf(tys, par) == tys[par].meta

\* A class statement `class <tn>(<the class just declared>):` starts.
Derive(tn) ==
    /\ dpc = "done"
    /\ outcome.error = "none"
    /\ newType \in usable
    /\ Depth(types, newType) < MaxDepth
    /\ meta' = MetaclassOf(types, newType)
    /\ clsName' = tn
    /\ parent' = newType
    /\ stmts' = <<>> /\ ns' = <<>> /\ dpc' = "body"
    /\ outcome' = NoOutcome /\ newType' = 0
    /\ UNCHANGED <<types, subclasses, usable, instResult>>
    /\ UNCHANGED <<singletonVars, slotVars, wrapVars>>

InitChain == InitSingletonVars /\ InitSlotOff /\ InitWrapOff /\ InitDeclWith(ChainRoots, ChainTypeNames)

NextChain ==
    \/ \E n \in ChainMemberNames, v \in ChainValues : Bind(n, v)
    \/ MetaCall
    \/ \E tn \in ChainTypeNames : Derive(tn)

SpecChain == InitChain /\ [][NextChain]_vars

(***************************************************************************)
(* The specifications of SingletonMeta and of the Typed descriptors        *)
(***************************************************************************)
\* A sequence of construction calls of one singleton type by one caller.
InitSingleton == InitSingletonVars /\ InitDeclOff /\ InitSlotOff /\ InitWrapOff

NextSingleton == \E a \in Args, ok \in BOOLEAN : SingletonMeta_call(a, ok)

SpecSingleton == InitSingleton /\ [][NextSingleton]_vars

\* Threads calling the singleton type concurrently.
InitRace == InitSingletonVars /\ InitDeclOff /\ InitSlotOff /\ InitWrapOff

NextRace ==
    \E t \in Threads :
        \/ \E a \in Args : ThreadCall(t, a)
        \/ ThreadTest(t)
        \/ \E ok \in BOOLEAN : ThreadConstruct(t, ok)
        \/ ThreadStore(t)
        \/ ThreadReturn(t)

SpecRace == InitRace /\ [][NextRace]_vars

\* A class with Typed members is declared; one instance is read and written.
InitSlot ==
    /\ InitSingletonVars /\ InitDeclOff /\ InitWrapOff
    /\ smeta = "type" /\ sbody = <<>> /\ sdict = <<>> /\ sorder = <<>> /\ spc = "declare"
    /\ idict = <<>> /\ ops = <<>> /\ pdict = <<>> /\ pops = <<>>

NextSlot ==
    \/ \E body \in SlotBodies : DeclareTyped(body)
    \/ \E m \in {"NoDuplicateMeta", "PepStyleMeta"}, body \in SlotBodies : DeclareStyled(m, body)
    \/ \E attr \in {SlotName1, SlotName2, SlotName3}, v \in PyValues : SlotWrite(attr, v)
    \/ \E attr \in {SlotName1, SlotName2, SlotName3} : SlotRead(attr)

SpecSlot == InitSlot /\ [][NextSlot]_vars

\* A class with Typed members and its twin with typed properties; one instance
\* of each is driven by the same reads and writes.
InitTwin == InitSlot

NextTwin ==
    \/ \E body \in SlotBodies : DeclareTyped(body)
    \/ \E attr \in {SlotName1, SlotName2, SlotName3}, v \in PyValues : TwinWrite(attr, v)
    \/ \E attr \in {SlotName1, SlotName2, SlotName3} : TwinRead(attr)

SpecTwin == InitTwin /\ [][NextTwin]_vars

\* A function is decorated with enforce_type and called, with __debug__ true
\* or false.
InitWrap ==
    /\ InitSingletonVars /\ InitDeclOff /\ InitSlotOff
    /\ wdebug \in BOOLEAN /\ wpc = "def"
    /\ wtypes = [i \in DOMAIN SpamParams |-> Uncovered]
    /\ wcallable = "func" /\ wcall = NoCall

NextWrap ==
    \/ \E bound_types \in Coverings : Decorate(bound_types)
    \/ \E args \in CallArgs : WrapCall(args)

SpecWrap == InitWrap /\ [][NextWrap]_vars

(***************************************************************************)
(* Claims about SingletonMeta                                              *)
(***************************************************************************)
Returned(i) == log[i].result.kind = "object"

\* C1: in a sequence of construction calls of a singleton type, every call
\* that returns yields the object of the first call that returned, no call
\* after it runs the constructor again, only one object is ever built, and
\* the cached object's state is what that first call's arguments produced.
C1_SameInstanceFirstArgs ==
    /\ \A i, j \in 1..Len(log) :
          (i < j /\ Returned(i)) =>
              /\ log[j].result = log[i].result
              /\ ~log[j].ctor
    /\ \A i \in 1..Len(log) :
          (Returned(i) /\ \A k \in 1..(i - 1) : ~Returned(k)) =>
              /\ instance = log[i].result
              /\ heap[instance.id] = log[i].args
    /\ Len(heap) <= 1

\* C1 witness: two calls with different arguments have both returned.
C1_Witness ==
    \E i, j \in 1..Len(log) :
        i < j /\ Returned(i) /\ Returned(j) /\ log[i].args # log[j].args

\* C2: when threads race on the construction calls of one singleton type,
\* at most one instance is ever created and every caller that got an
\* instance got the same one.
C2_AtMostOneInstance ==
    /\ Len(heap) <= 1
    /\ \A t, u \in Threads :
          (ret[t].kind = "object" /\ ret[u].kind = "object") => ret[t] = ret[u]

\* the call that a step of the sequential caller has just completed
LastCall == log'[Len(log')]

\* C16: a construction call whose constructor raises propagates the error and
\* leaves the entry empty; while the entry is empty every call runs the
\* constructor, on its own arguments; the entry is non-empty only once a call
\* has returned, it then holds the object of that call, and it never changes
\* afterwards.
C16_FailedConstruction ==
    /\ [](instance # None =>
            \E i \in 1..Len(log) :
                /\ Returned(i) /\ log[i].result = instance
                /\ \A k \in 1..(i - 1) : log[k].result = Raised /\ log[k].ctor)
    /\ [](instance = None =>
            /\ heap = <<>>
            /\ ctorRuns = Len(log)
            /\ \A i \in 1..Len(log) : log[i].result = Raised /\ log[i].ctor)
    /\ [][/\ instance # None => instance' = instance
          /\ (instance = None /\ Len(log') = Len(log) + 1) =>
                /\ ctorRuns' = ctorRuns + 1
                /\ LastCall.ctor
                /\ LastCall.result = Raised => (instance' = None /\ heap' = heap)
                /\ LastCall.result # Raised =>
                      /\ instance' = LastCall.result
                      /\ instance'.kind = "object"
                      /\ heap'[instance'.id] = LastCall.args]_vars

\* C16 witness: the first call raised, the second call, made with other
\* arguments, ran the constructor and returned, and a third call returned the
\* same object.
C16_Witness ==
    /\ Len(log) >= 3
    /\ log[1].result = Raised
    /\ Returned(2) /\ log[2].ctor /\ log[2].args # log[1].args
    /\ heap[log[2].result.id] = log[2].args
    /\ log[3].result = log[2].result /\ ~log[3].ctor
    /\ instance = log[2].result

(***************************************************************************)
(* Claims about the class statement                                        *)
(***************************************************************************)
Done == dpc = "done"

\* what a declaration violates, read off the executed body, the class name
\* and the base class
ViolatesDuplicate ==
    \E i, j \in DOMAIN stmts : i < j /\ stmts[i].name = stmts[j].name
ViolatesTypeName == IsLowerChar(clsName[1]) \/ str_islower(clsName)
ViolatesNaming ==
    \E i \in DOMAIN ns :
        camelcase_match(ns[i].name) \/ (str_isupper(ns[i].name) /\ callable(ns[i].value))
\* the members that redefine a callable of the base class
Redefinitions ==
    {i \in DOMAIN ns :
        /\ ~startswith_underscore(ns[i].name)
        /\ callable(ns[i].value)
        /\ callable(getattr_type(types, parent, ns[i].name))}
ParentSig(i) == getattr_type(types, parent, ns[i].name).sig
ViolatesSignature == \E i \in Redefinitions : ParentSig(i) # ns[i].value.sig

Structural == {"BadAttributeNameError", "BadClassNameError",
               "DuplicateAttributeError", "SignatureError"}

\* C3 as stated: under PepStyleMeta the violation raised is the one of the
\* earliest violated policy in the order naming-convention, type-name,
\* duplicate-member, signature-match.
C3_OrderAsStated ==
    (meta = "PepStyleMeta" /\ Done) =>
        outcome.error =
            IF ViolatesNaming THEN "BadAttributeNameError"
            ELSE IF ViolatesTypeName THEN "BadClassNameError"
            ELSE IF ViolatesDuplicate THEN "DuplicateAttributeError"
            ELSE IF ViolatesSignature THEN "SignatureError"
            ELSE "none"

\* C3 (amended): under PepStyleMeta the violation raised is the one of the
\* earliest violated policy in the order duplicate-member (raised while the
\* body runs), type-name, naming-convention, signature-match; a declaration
\* that violates none of them is accepted.
C3_PolicyOrder ==
    (meta = "PepStyleMeta" /\ Done) =>
        outcome.error =
            IF ViolatesDuplicate THEN "DuplicateAttributeError"
            ELSE IF ViolatesTypeName THEN "BadClassNameError"
            ELSE IF ViolatesNaming THEN "BadAttributeNameError"
            ELSE IF ViolatesSignature THEN "SignatureError"
            ELSE "none"

\* C3 witness: a lower-case class name with a camelCase member has been
\* declared under PepStyleMeta, and BadClassNameError was raised.
C3_Witness ==
    /\ meta = "PepStyleMeta" /\ Done
    /\ ViolatesTypeName /\ ViolatesNaming /\ ~ViolatesDuplicate
    /\ outcome.error = "BadClassNameError"

\* C4 as stated: whenever a structural policy raises, no type object has been
\* created or registered as a subclass of its base.
C4_NothingCreatedAsStated ==
    (Done /\ outcome.error \in Structural) =>
        /\ newType = 0
        /\ \A i \in DOMAIN subclasses : subclasses[i] = {}

\* C4 (amended): when the naming-convention, type-name or duplicate-member
\* policy raises, no type object has been created or registered; when the
\* signature-match policy raises, the type object has already been created
\* and registered as a subclass of its base; in all four cases the class
\* statement is aborted and the type is never bound to its name.
C4_AbortedDeclaration ==
    (Done /\ outcome.error \in Structural) =>
        /\ outcome.error # "SignatureError" =>
              /\ newType = 0
              /\ DOMAIN types = usable
              /\ \A i \in DOMAIN subclasses : subclasses[i] = {}
        /\ outcome.error = "SignatureError" =>
              /\ newType \in DOMAIN types
              /\ newType \in subclasses[parent]
        /\ newType \notin usable

\* C4 witness: a class derived from an accepted base has been rejected by the
\* naming-convention policy.
C4_Witness ==
    Done /\ parent # 0 /\ outcome.error = "BadAttributeNameError"

LowerUpperAnywhere(s) ==
    \E i \in 1..(Len(s) - 1) : IsLowerChar(s[i]) /\ IsUpperChar(s[i + 1])

\* C5: under NoMixedCaseMeta a declaration raises BadAttributeNameError
\* exactly when some member name has a lower-case letter immediately followed
\* by an upper-case letter at any position, or is fully upper-case and bound
\* to a callable.
C5_NamingPolicy ==
    (meta = "NoMixedCaseMeta" /\ Done) =>
        (outcome.error = "BadAttributeNameError" <=>
            \E i \in DOMAIN ns :
                \/ LowerUpperAnywhere(ns[i].name)
                \/ (str_isupper(ns[i].name) /\ callable(ns[i].value)))

\* C6: under NoLowerCaseMeta a class named T raises BadClassNameError if and
\* only if T's first character is a lower-case letter or T is entirely
\* lower-case (str.islower); every other name is accepted and the type is
\* created under that name.
C6_TypeNamePolicy ==
    (meta = "NoLowerCaseMeta" /\ Done) =>
        IF IsLowerChar(clsName[1]) \/ str_islower(clsName)
        THEN outcome.error = "BadClassNameError" /\ newType = 0
        ELSE /\ outcome.error = "none"
             /\ newType \in usable
             /\ types[newType].name = clsName

\* C6 witness: a class whose name has no lower-case first character but is
\* lower-case as a whole has been rejected.
C6_Witness ==
    /\ meta = "NoLowerCaseMeta" /\ Done
    /\ ~IsLowerChar(clsName[1]) /\ str_islower(clsName)
    /\ outcome.error = "BadClassNameError"

\* C7: under the duplicate-member policy, binding a name already bound in the
\* body raises DuplicateAttributeError at that statement (no later statement
\* runs and the metaclass is not called), whatever the two values, and leaves
\* the first binding as it was; a body binding every name once is not
\* rejected for duplicates and, under NoDuplicateMeta alone, is accepted.
C7_DuplicatePolicy ==
    (dpc # "off" /\ InMRO(meta, "NoDuplicateMeta")) =>
        IF ViolatesDuplicate
        THEN LET n == Len(stmts)
             IN  /\ \E i \in 1..(n - 1) : stmts[i].name = stmts[n].name
                 /\ \A i, j \in 1..(n - 1) : i < j => stmts[i].name # stmts[j].name
                 /\ outcome = [error |-> "DuplicateAttributeError", member |-> stmts[n].name]
                 /\ Done
                 /\ ns = SubSeq(stmts, 1, n - 1)
                 /\ newType = 0
        ELSE /\ outcome.error # "DuplicateAttributeError"
             /\ ns = stmts
             /\ (Done /\ meta = "NoDuplicateMeta") =>
                    (outcome.error = "none" /\ newType \in usable)

\* C7 witness: the same name has been bound twice to the same value.
C7_Witness ==
    /\ InMRO(meta, "NoDuplicateMeta") /\ Done
    /\ Len(stmts) = 2 /\ stmts[1] = stmts[2]
    /\ outcome.error = "DuplicateAttributeError"

ParamNames(sig) == [i \in DOMAIN sig.params |-> sig.params[i].name]
ParamDefaults(sig) == [i \in DOMAIN sig.params |-> sig.params[i].default]
ParamKinds(sig) == [i \in DOMAIN sig.params |-> sig.params[i].kind]
SameThree(p, c) ==
    /\ ParamNames(p) = ParamNames(c)
    /\ ParamDefaults(p) = ParamDefaults(c)
    /\ ParamKinds(p) = ParamKinds(c)

\* C8 as stated: under MatchSignatureMeta, a declaration redefining callables
\* of its base raises SignatureError if some redefinition differs from the
\* base's version in parameter names, defaults or variadic markers, and
\* succeeds whenever those three agree for every redefinition.
C8_ThreeComponentsAsStated ==
    (meta = "MatchSignatureMeta" /\ Done /\ Redefinitions # {}) =>
        IF \E i \in Redefinitions : ~SameThree(ParentSig(i), ns[i].value.sig)
        THEN outcome.error = "SignatureError"
        ELSE outcome.error = "none"

\* C8 (amended): under MatchSignatureMeta, a declaration redefining callables
\* of its base raises SignatureError if some redefinition's signature differs
\* from the base's version in its ordered parameter names, their kinds
\* (variadic markers), their default values, their annotations or the return
\* annotation, and succeeds when every redefinition's signature is equal to
\* the base's in all of these.
C8_SignatureMatch ==
    (meta = "MatchSignatureMeta" /\ Done /\ Redefinitions # {}) =>
        IF \E i \in Redefinitions : ParentSig(i) # ns[i].value.sig
        THEN outcome.error = "SignatureError" /\ newType \notin usable
        ELSE outcome.error = "none" /\ newType \in usable

\* C8 witness: a redefinition with the base's parameter names, defaults and
\* variadic markers but another annotation has been rejected.
C8_Witness ==
    /\ meta = "MatchSignatureMeta" /\ Done
    /\ \E i \in Redefinitions :
          /\ SameThree(ParentSig(i), ns[i].value.sig)
          /\ ParentSig(i) # ns[i].value.sig
    /\ outcome.error = "SignatureError"

\* C15: the signature-match policy fails a declaration only on a member of
\* Redefinitions (non-private, callable, and bound to a callable on the
\* parent): whenever the metaclass call fails in MatchSignatureMeta.__init__
\* the member it failed on is one of them, and a declaration under
\* MatchSignatureMeta with no such member is accepted.
C15_OnlyCallableRedefinitions ==
    (InMRO(meta, "MatchSignatureMeta") /\ Done) =>
        /\ outcome.error \in {"SignatureError", "TypeError"} =>
              \E i \in Redefinitions : ns[i].name = outcome.member
        /\ (meta = "MatchSignatureMeta" /\ Redefinitions = {}) => outcome.error = "none"

\* the names bound along the chain of base classes of a type
RECURSIVE ChainNames(_)
ChainNames(t) == IF t = 0 THEN {} ELSE Keys(types[t].dict) \cup ChainNames(types[t].parent)
\* the abstract members a type still carries, overridden by nothing
StillAbstract(t) == {n \in ChainNames(t) : IsAbstract(getattr_type(types, t, n))}

RECURSIVE DescendsFrom(_, _)
DescendsFrom(t, a) == t # 0 /\ (t = a \/ DescendsFrom(types[t].parent, a))
\* AbstractStyle is the first type object of a chain below it
AbstractStyle == 1

\* C12: a class declared below AbstractStyle, at any depth and with no
\* metaclass of its own, is under the whole composite: if its declaration
\* violates the naming-convention, type-name, duplicate-member or
\* signature-match policy (the last against the nearest class above it that
\* binds the name) a structural violation is raised and the class is not
\* bound, the violation raised is that of a policy the declaration violates,
\* and a declaration violating none is accepted as a PepStyleMeta type.
C12_DescendantsPoliced ==
    (Done /\ DescendsFrom(parent, AbstractStyle)
          /\ types[AbstractStyle].meta = "PepStyleMeta") =>
        /\ (ViolatesDuplicate \/ ViolatesTypeName \/ ViolatesNaming \/ ViolatesSignature) =>
              (outcome.error \in Structural /\ newType \notin usable)
        /\ outcome.error = "DuplicateAttributeError" => ViolatesDuplicate
        /\ outcome.error = "BadClassNameError" => ViolatesTypeName
        /\ outcome.error = "BadAttributeNameError" => ViolatesNaming
        /\ outcome.error = "SignatureError" => ViolatesSignature
        /\ ~(ViolatesDuplicate \/ ViolatesTypeName \/ ViolatesNaming \/ ViolatesSignature) =>
              /\ outcome.error = "none"
              /\ newType \in usable
              /\ types[newType].meta = "PepStyleMeta"

\* C12 witness: a class two levels below a class derived from AbstractStyle,
\* whose own base does not bind the method, redefined that method and was
\* rejected with SignatureError.
C12_Witness ==
    /\ Done /\ DescendsFrom(parent, AbstractStyle)
    /\ types[AbstractStyle].meta = "PepStyleMeta" /\ types[AbstractStyle].dict = <<>>
    /\ Depth(types, parent) >= 2
    /\ Keys(ns) \cap Keys(types[parent].dict) = {}
    /\ ViolatesSignature /\ ~ViolatesNaming /\ ~ViolatesTypeName /\ ~ViolatesDuplicate
    /\ outcome.error = "SignatureError"

(***************************************************************************)
(* Claims about enforce_type                                               *)
(***************************************************************************)
\* the last call gave every parameter without a default a value
CallBinds == \A i \in DOMAIN SpamParams : wcall.args[i] = NoArg => SpamDefaults[i] # NoArg
\* the covered parameters whose argument in the last call is not an instance
\* of the expected type
Mismatched ==
    {i \in DOMAIN SpamParams :
        /\ wcall.args[i] # NoArg /\ wtypes[i] # Uncovered
        /\ ~isinstance(wcall.args[i], wtypes[i])}
\* the call raised for a mismatched parameter and the body was not entered
Rejected ==
    /\ wcall.raised = "TypeError"
    /\ \E i \in Mismatched : wcall.member = SpamParams[i]
    /\ wcall.entered = 0 /\ wcall.result = NoResult
\* the body was entered once, with the arguments of the call, and what it
\* returned is what the call returned
Delegated ==
    /\ wcall.raised = "none" /\ wcall.entered = 1
    /\ wcall.received = wcall.args
    /\ wcall.result = spam(wcall.args)

\* C11 as stated: every call of a function decorated with enforce_type that
\* gives a covered parameter a value of another type raises and does not
\* enter the body; every other call enters the body once with the original
\* arguments and returns its result.
C11_EnforcedAsStated ==
    (wpc = "decorated" /\ wcall # NoCall /\ CallBinds) =>
        IF Mismatched # {} THEN Rejected ELSE Delegated

\* C11 (amended): when __debug__ is true, a call that gives a covered
\* parameter a value of another type raises TypeError naming the first such
\* parameter and does not enter the body, and every other call that binds
\* enters the body once with the original arguments and returns its result
\* unchanged; when __debug__ is false (python -O) the decorator returns the
\* function itself and every call that binds enters the body, whatever the
\* types of its arguments. A call that does not bind to the signature raises
\* TypeError without entering the body in both cases.
C11_EnforcedInDebug ==
    (wpc = "decorated" /\ wcall # NoCall) =>
        /\ ~CallBinds => (wcall.raised = "TypeError" /\ wcall.entered = 0)
        /\ (CallBinds /\ wdebug) =>
              IF Mismatched # {}
              THEN /\ Rejected
                   /\ \A i \in Mismatched :
                         \A j \in Mismatched : j < i => wcall.member # SpamParams[i]
              ELSE Delegated
        /\ (CallBinds /\ ~wdebug) => Delegated

\* C11 witness: with foo covered as bool and __debug__ true, the call
\* spam(None, 10) raised for foo without entering the body.
C11_Witness ==
    /\ wpc = "decorated" /\ wdebug
    /\ wtypes[1] = "bool" /\ wtypes[2] = "int"
    /\ wcall.args = <<PyValue("NoneType", "None"), PyValue("int", "10"), NoArg>>
    /\ wcall.raised = "TypeError" /\ wcall.member = "foo" /\ wcall.entered = 0

(***************************************************************************)
(* Claims about the Typed descriptors                                      *)
(***************************************************************************)
\* the expected type declared for an attribute in the class body
DeclaredType(attr) == sbody[IndexOf(sbody, attr)].value.expected
\* the writes to attr before operation k whose value is an instance of the
\* declared type
AcceptedBefore(attr, k) ==
    {i \in 1..(k - 1) :
        /\ ops[i].op = "write" /\ ops[i].attr = attr
        /\ isinstance(ops[i].value, DeclaredType(attr))}
Max(S) == CHOOSE x \in S : \A y \in S : y <= x

BodyIndex(name) == IndexOf(sbody, name)
\* the members of the class body that are Typed instances
BodySlots == {sbody[i].name : i \in {j \in DOMAIN sbody : IsTyped(sbody[j].value)}}

\* _order holds the names of the Typed members of the body and no other name,
\* each once, in the order the body declared them, and every Typed member of
\* the class carries the name it is bound to; the other members are left as
\* declared
SlotsRecorded ==
        /\ {sorder[i] : i \in DOMAIN sorder} = BodySlots
        /\ Len(sorder) = Cardinality(BodySlots)
        /\ \A i, j \in DOMAIN sorder :
              i < j => BodyIndex(sorder[i]) < BodyIndex(sorder[j])
        /\ Len(sdict) = Len(sbody)
        /\ \A i \in DOMAIN sdict :
              /\ sdict[i].name = sbody[i].name
              /\ IF IsTyped(sbody[i].value)
                 THEN /\ IsTyped(sdict[i].value)
                      /\ sdict[i].value.expected = sbody[i].value.expected
                      /\ sdict[i].value.name = sdict[i].name
                 ELSE sdict[i].value = sbody[i].value

\* C13 as stated: every class that declares Typed members and gets an _order,
\* whichever metaclass records it, has exactly its Typed members in _order,
\* in declaration order, and each of them has been told its name.
C13_OrderRecordAsStated == spc \in {"declared", "live"} => SlotsRecorded

\* the non-private members of the class body
BodyPublic == {sbody[i].name : i \in {j \in DOMAIN sbody : ~startswith_underscore(sbody[j].name)}}

\* C13 (amended): for a class declared under OrderTypedMeta whose body
\* interleaves Typed members of any subtype with other members, _order is
\* exactly the names of the Typed members in declaration order and each of
\* them has been told its name. For a class declared under NoDuplicateMeta
\* or PepStyleMeta, _order is instead the names of all its non-private
\* members, Typed or not, in declaration order, and its Typed members are
\* left without a name.
C13_OrderRecord ==
    /\ (spc # "off" /\ spc # "declare" /\ smeta = "OrderTypedMeta") => SlotsRecorded
    /\ (spc # "off" /\ spc # "declare" /\ smeta # "OrderTypedMeta") =>
          /\ {sorder[i] : i \in DOMAIN sorder} = BodyPublic
          /\ Len(sorder) = Cardinality(BodyPublic)
          /\ \A i, j \in DOMAIN sorder :
                i < j => BodyIndex(sorder[i]) < BodyIndex(sorder[j])
          /\ sdict = sbody
          /\ \A i \in DOMAIN sdict :
                IsTyped(sdict[i].value) => sdict[i].value.name = NoName

\* C13 witness: a class with three slots of three different subtypes and a
\* method declared between them has been declared, and its _order lists the
\* three slots.
C13_Witness ==
    /\ spc = "live" /\ smeta = "OrderTypedMeta"
    /\ Len(sorder) = 3
    /\ Cardinality({sbody[BodyIndex(sorder[i])].value.expected : i \in DOMAIN sorder}) = 3
    /\ \E k \in DOMAIN sbody :
          /\ ~IsTyped(sbody[k].value)
          /\ BodyIndex(sorder[1]) < k /\ k < BodyIndex(sorder[3])

\* C14: an instance with typed properties and an instance with Typed members
\* of the same names and expected types, driven from new by the same reads
\* and writes, accept and reject the same writes and yield the same outcome
\* for every read, a read before any write included.
C14_SlotPropertyEquivalent ==
    /\ Len(pops) = Len(ops)
    /\ \A k \in DOMAIN pops :
          /\ pops[k].result = ops[k].result
          /\ ops[k].op = "read" => pops[k].value = ops[k].value

====
